---- MODULE Spec2Model ----
(***************************************************************************)
(* fast-dhash: Dhash::new (length check, eight scoped row workers, join    *)
(* loop, signature building) and the Dhash value operations                *)
(* (hamming_distance, ==, Display, FromStr), modelled from src/src/lib.rs. *)
(*                                                                         *)
(* Numbers.  usize arithmetic is kept modulo UsizeMod; the widths are      *)
(* scaled (u32 -> DimBits bits, usize -> 2*DimBits bits, as 64 = 2*32) so  *)
(* that the products the code forms can wrap inside the model.  A u64 is   *)
(* four 16-bit limbs, least significant first.  The f64 cell accumulators  *)
(* are kept exactly: the grayscale path in units, the rgb path in          *)
(* thousandths (299*rs + 587*gs + 114*bs); only cells of one grid are      *)
(* ever compared with each other.                                          *)
(***************************************************************************)
EXTENDS Integers, Sequences, FiniteSets

VARIABLES
    bytes, width, height, channel_count,   \* the arguments of Dhash::new
    pc,                                    \* position of the calling thread
    spawned, joined,                       \* progress of the two loops of the scope
    wstate, rows,                          \* per worker: status and returned row
    reads,                                 \* byte indices read so far by workers
    oob,                                   \* what an out-of-bounds read does in this run
    grid, hash,                            \* the reducer's grid, the fingerprint
    fa, fb, fc,                            \* three Dhash values
    dist, eqs,                             \* results of hamming_distance and ==
    text, parsed                           \* results of to_string and from_str

vars == <<bytes, width, height, channel_count, pc, spawned, joined, wstate,
          rows, reads, oob, grid, hash, fa, fb, fc, dist, eqs, text, parsed>>

newVars == <<bytes, width, height, channel_count, spawned, joined, wstate,
             rows, reads, oob, grid, hash>>
fpVars == <<fa, fb, fc, dist, eqs, text, parsed>>

----------------------------------------------------------------------------
(* Bounds and program constants *)

DimBits == 5         \* bits of a width or a height; usize has twice as many
MaxChannels == 4     \* largest channel_count drawn
MaxBytes == 400      \* longest slice drawn (below isize::MAX = UsizeMod / 2 - 1)

GridRows == 8
GridCols == 9
HashBits == 64
Threshold == 11
HexWidth == 16

UsizeMod == 2 ^ (2 * DimBits)
HalfDim == 2 ^ (DimBits - 1)

Rows == 0 .. (GridRows - 1)
Cols == 0 .. (GridCols - 1)

----------------------------------------------------------------------------
(* u64 as four 16-bit limbs, least significant first *)

Limb == 2 ^ 16
NLimbs == HashBits \div 16

U64Zero == [k \in 1 .. NLimbs |-> 0]
U64Ones == [k \in 1 .. NLimbs |-> Limb - 1]

\* 1 << i
U64Bit(i) == [k \in 1 .. NLimbs |-> IF k = (i \div 16) + 1 THEN 2 ^ (i % 16) ELSE 0]

RECURSIVE AddLimbs(_, _, _, _)
AddLimbs(a, b, k, carry) ==
    IF k > NLimbs THEN << >>
    ELSE LET s == a[k] + b[k] + carry
         IN  <<s % Limb>> \o AddLimbs(a, b, k + 1, s \div Limb)

U64Add(a, b) == AddLimbs(a, b, 1, 0)

\* bit i of h, counted from the least significant bit
BitOf(h, i) == (h[(i \div 16) + 1] \div (2 ^ (i % 16))) % 2

\* for (i, &bit) in bits.iter().enumerate() { if bit { hash += 1 << i } }:
\* the sum of 1 << i over the set bits lo..hi, added up by halves
RECURSIVE PackBits(_, _, _)
PackBits(bits, lo, hi) ==
    IF lo = hi THEN (IF bits[lo] THEN U64Bit(lo) ELSE U64Zero)
    ELSE LET mid == (lo + hi) \div 2
         IN  U64Add(PackBits(bits, lo, mid), PackBits(bits, mid + 1, hi))

----------------------------------------------------------------------------
(* Dhash::new: the length check *)

\* width * height * channel_count as the machine forms it (wrapping)
DeclaredLen == (((width * height) % UsizeMod) * channel_count) % UsizeMod

\* the same product overflows usize
ProductOverflows == width * height * channel_count >= UsizeMod

cell_width == width \div GridCols
cell_height == height \div GridRows

UsesRgb == channel_count >= 3

----------------------------------------------------------------------------
(* grid_from_rgb / grid_from_grayscale: one row worker *)

WildBytes == {0, 255}

\* What a read outside the slice does is undefined; one run shows one behaviour,
\* fixed by the first such read: the byte found there, a caught fault that
\* panics the worker, or a fault that kills the process.
OobUnknown == [mode |-> "unknown", byte |-> 0]
OobWild(b) == [mode |-> "wild", byte |-> b]
OobPanic == [mode |-> "panic", byte |-> 0]
OobAbort == [mode |-> "abort", byte |-> 0]

\* the index with its coordinates exchanged: (image_x * width + image_y) * channel_count
PixelIndexSwapped(image_x, image_y) ==
    ((image_x * width + image_y) * channel_count) % UsizeMod

\* i = (image_y * width + image_x) * channel_count
PixelIndex(image_x, image_y) == ((image_y * width + image_x) * channel_count) % UsizeMod

\* bytes.get_unchecked(i): the byte when i is inside the slice, else whatever
\* lies there (wild)
ReadByte(i, wild) == IF i < Len(bytes) THEN bytes[i + 1] ELSE wild

\* the inner loop, for image_y in from..to, summing channel k
RECURSIVE ColumnSum(_, _, _, _, _)
ColumnSum(image_x, image_y, to, k, wild) ==
    IF image_y >= to THEN 0
    ELSE ReadByte((PixelIndex(image_x, image_y) + k) % UsizeMod, wild)
         + ColumnSum(image_x, image_y + 1, to, k, wild)

\* the outer loop, for image_x in from..to
RECURSIVE ChannelSum(_, _, _, _, _)
ChannelSum(image_x, to, y, k, wild) ==
    IF image_x >= to THEN 0
    ELSE ColumnSum(image_x, y * cell_height, y * cell_height + cell_height, k, wild)
         + ChannelSum(image_x + 1, to, y, k, wild)

\* rs * 0.299 + gs * 0.587 + bs * 0.114, in thousandths
Luma(rs, gs, bs) == 299 * rs + 587 * gs + 114 * bs

RgbCell(x, y, wild) ==
    LET from == x * cell_width
        to == from + cell_width
    IN  Luma(ChannelSum(from, to, y, 0, wild),
             ChannelSum(from, to, y, 1, wild),
             ChannelSum(from, to, y, 2, wild))

GrayCell(x, y, wild) ==
    LET from == x * cell_width
        to == from + cell_width
    IN  ChannelSum(from, to, y, 0, wild)

\* the (y, row) a worker returns
WorkerRow(y, wild) ==
    [x \in Cols |-> IF UsesRgb THEN RgbCell(x, y, wild) ELSE GrayCell(x, y, wild)]

\* the byte indices a worker passes to get_unchecked, in the order of its loops
ChannelOffsets == IF UsesRgb THEN <<0, 1, 2>> ELSE <<0>>

RECURSIVE AccessesY(_, _, _)
AccessesY(image_x, image_y, to) ==
    IF image_y >= to THEN << >>
    ELSE [j \in 1 .. Len(ChannelOffsets) |->
            (PixelIndex(image_x, image_y) + ChannelOffsets[j]) % UsizeMod]
         \o AccessesY(image_x, image_y + 1, to)

RECURSIVE AccessesX(_, _, _)
AccessesX(image_x, to, y) ==
    IF image_x >= to THEN << >>
    ELSE AccessesY(image_x, y * cell_height, y * cell_height + cell_height)
         \o AccessesX(image_x + 1, to, y)

RECURSIVE Accesses(_, _)
Accesses(x, y) ==
    IF x >= GridCols THEN << >>
    ELSE AccessesX(x * cell_width, x * cell_width + cell_width, y) \o Accesses(x + 1, y)

\* the accesses up to and including the first one outside the slice
UpToFault(acc) ==
    LET outside == {j \in DOMAIN acc : acc[j] >= Len(bytes)}
        first == CHOOSE j \in outside : \A m \in outside : j <= m
    IN  {acc[j] : j \in 1 .. first}

\* every index a worker reads
RowIndices(y) ==
    {(PixelIndex(x * cell_width + dx, y * cell_height + dy) + ChannelOffsets[j]) % UsizeMod :
        x \in Cols, dx \in 0 .. (cell_width - 1), dy \in 0 .. (cell_height - 1),
        j \in 1 .. Len(ChannelOffsets)}

InBounds(y) ==
    \A x \in Cols, dx \in 0 .. (cell_width - 1), dy \in 0 .. (cell_height - 1),
       j \in 1 .. Len(ChannelOffsets) :
        (PixelIndex(x * cell_width + dx, y * cell_height + dy) + ChannelOffsets[j]) % UsizeMod
            < Len(bytes)

----------------------------------------------------------------------------
(* Dhash::new: the signature *)

\* the bit index with y and x exchanged
BitIndexTransposed(y, x) == x * 8 + y

\* bits[y * 8 + x]
BitIndex(y, x) == y * 8 + x

\* the comparison turned round
RightExceedsLeft(g, y, x) == g[y][x] < g[y][x + 1]

\* grid[y][x] > grid[y][x + 1]
LeftExceedsRight(g, y, x) == g[y][x] > g[y][x + 1]

\* let mut bits = [false; 64], then the two loops over y and x
Bits(g) ==
    [i \in 0 .. (HashBits - 1) |->
        \E y \in 0 .. 7, x \in 0 .. 7 : BitIndex(y, x) = i /\ LeftExceedsRight(g, y, x)]

Signature(g) == PackBits(Bits(g), 0, HashBits - 1)

----------------------------------------------------------------------------
(* The inputs the model draws *)

Patterns == {"up", "down", "bands", "mixed"}

\* the byte at index i of a w-pixel-wide, cc-channel image painted with pat
PatternByte(pat, i, w, cc) ==
    LET p == IF cc = 0 THEN 0 ELSE i \div cc
        k == IF cc = 0 THEN 0 ELSE i % cc
        px == IF w = 0 THEN 0 ELSE p % w
        py == IF w = 0 THEN 0 ELSE p \div w
        alpha == (py * 31 + px * 17 + 3) % 256
        band == IF w = 0 THEN 0 ELSE (px * 3) \div w
    IN  CASE pat = "up" ->
                IF cc >= 3
                THEN (IF k = 0 THEN 120 - px ELSE IF k = 1 THEN 40 + 2 * px
                      ELSE IF k = 2 THEN 9 ELSE alpha)
                ELSE (IF k = 0 THEN 20 + 7 * px ELSE alpha)
          [] pat = "down" ->
                IF cc >= 3
                THEN (IF k = 0 THEN 90 + px ELSE IF k = 1 THEN 200 - 2 * px
                      ELSE IF k = 2 THEN 9 ELSE alpha)
                ELSE (IF k = 0 THEN 250 - 7 * px ELSE alpha)
          [] pat = "bands" ->
                IF k >= 3 \/ (cc < 3 /\ k >= 1) THEN alpha
                ELSE (IF band = 1 THEN 60 ELSE 40) + (IF k = 1 THEN py % 3 ELSE 0)
          [] OTHER -> (i * i * 3 + i * 29 + 11) % 256

PatternBytes(n, pat, w, cc) == [j \in 1 .. n |-> PatternByte(pat, j - 1, w, cc)]

Geometries ==
    {<<8, 8>>, <<9, 7>>, <<9, 8>>, <<10, 9>>, <<18, 16>>, <<HalfDim, HalfDim>>}

\* an image none of whose bytes is read is painted one way only
PatternsFor(w, h, cc) ==
    IF w \div GridCols = 0 \/ h \div GridRows = 0 \/ cc = 0 THEN {"mixed"} ELSE Patterns

\* slice lengths tried for a geometry: the declared one, and some that differ
Lengths(w, h, cc) ==
    LET d == (((w * h) % UsizeMod) * cc) % UsizeMod
    IN  {n \in {d - 1, d, d + 1, 0} : 0 <= n /\ n <= MaxBytes}

ZeroRow == [x \in Cols |-> 0]

InitFp ==
    /\ fa = U64Zero /\ fb = U64Zero /\ fc = U64Zero
    /\ dist = << >> /\ eqs = << >>
    /\ text = << >> /\ parsed = [ok |-> FALSE, hash |-> U64Zero, err |-> "unset"]

Init ==
    /\ \E g \in Geometries, cc \in 0 .. MaxChannels :
       \E pat \in PatternsFor(g[1], g[2], cc) :
         /\ width = g[1] /\ height = g[2] /\ channel_count = cc
         /\ \E n \in Lengths(g[1], g[2], cc) : bytes = PatternBytes(n, pat, g[1], cc)
    /\ pc = "check"
    /\ spawned = 0 /\ joined = 0
    /\ wstate = [y \in Rows |-> "unspawned"]
    /\ rows = [y \in Rows |-> ZeroRow]
    /\ reads = {}
    /\ oob = OobUnknown
    /\ grid = [y \in Rows |-> ZeroRow]
    /\ hash = U64Zero
    /\ InitFp

----------------------------------------------------------------------------
(* Dhash::new: the calling thread *)

\* width * height * channel_count != bytes.len(): panic!
LengthMismatch ==
    /\ pc = "check"
    /\ DeclaredLen # Len(bytes)
    /\ pc' = "panicked"
    /\ UNCHANGED <<newVars, fpVars>>

\* the product overflows in a build with overflow checks: the multiplication panics
OverflowPanic ==
    /\ pc = "check"
    /\ ProductOverflows
    /\ pc' = "panicked"
    /\ UNCHANGED <<newVars, fpVars>>

LengthOk ==
    /\ pc = "check"
    /\ DeclaredLen = Len(bytes)
    /\ pc' = "spawn"
    /\ UNCHANGED <<newVars, fpVars>>

\* handles.push(s.spawn(..)) for y = spawned
Spawn ==
    /\ pc = "spawn"
    /\ wstate' = [wstate EXCEPT ![spawned] = "running"]
    /\ spawned' = spawned + 1
    /\ pc' = IF spawned + 1 = GridRows THEN "join" ELSE "spawn"
    /\ UNCHANGED <<bytes, width, height, channel_count, joined, rows, reads, oob,
                   grid, hash, fpVars>>

\* a join that does not wait for its worker
JoinReadyEarly(y) == wstate[y] # "unspawned"

\* handle.join() returns once the worker has ended
JoinReady(y) == wstate[y] \in {"done", "panicked"}

\* the row stored one place further
StoreRowShifted(g, y, row) == [g EXCEPT ![(y + 1) % GridRows] = row]

\* grid[y] = row
StoreRow(g, y, row) == [g EXCEPT ![y] = row]

\* let (y, row) = handle.join().unwrap(); grid[y] = row;
Join ==
    /\ pc = "join"
    /\ JoinReady(joined)
    /\ wstate[joined] # "panicked"
    /\ grid' = StoreRow(grid, joined, rows[joined])
    /\ joined' = joined + 1
    /\ pc' = IF joined + 1 = GridRows THEN "build" ELSE "join"
    /\ UNCHANGED <<bytes, width, height, channel_count, spawned, wstate, rows, reads,
                   oob, hash, fpVars>>

\* handle.join() is Err: unwrap() panics inside the scope
JoinPanic ==
    /\ pc = "join"
    /\ JoinReady(joined)
    /\ wstate[joined] = "panicked"
    /\ pc' = "unwind"
    /\ UNCHANGED <<newVars, fpVars>>

\* thread::scope waits for every spawned thread, then resumes the panic
ScopeExit ==
    /\ pc = "unwind"
    /\ \A y \in Rows : wstate[y] # "running"
    /\ pc' = "panicked"
    /\ UNCHANGED <<newVars, fpVars>>

\* bits, hash, Self { hash }
Build ==
    /\ pc = "build"
    /\ hash' = Signature(grid)
    /\ pc' = "returned"
    /\ UNCHANGED <<bytes, width, height, channel_count, spawned, joined, wstate, rows,
                   reads, oob, grid, fpVars>>

----------------------------------------------------------------------------
(* The row workers *)

Alive == pc \notin {"aborted"}

\* every read stays inside the slice: the worker runs its loops and returns (y, row)
WorkerReturn(y, wild) ==
    /\ rows' = [rows EXCEPT ![y] = WorkerRow(y, wild)]
    /\ reads' = reads \cup RowIndices(y)
    /\ wstate' = [wstate EXCEPT ![y] = "done"]
    /\ pc' = pc

\* a read outside the slice: the worker goes on with the byte found there, or
\* the fault is caught and the worker panics, or the process dies
WorkerOutside(y) ==
    \/ \E wild \in WildBytes :
          /\ oob \in {OobUnknown, OobWild(wild)}
          /\ oob' = OobWild(wild)
          /\ WorkerReturn(y, wild)
    \/ /\ oob \in {OobUnknown, OobPanic}
       /\ oob' = OobPanic
       /\ reads' = reads \cup UpToFault(Accesses(0, y))
       /\ wstate' = [wstate EXCEPT ![y] = "panicked"]
       /\ UNCHANGED <<rows, pc>>
    \/ /\ oob \in {OobUnknown, OobAbort}
       /\ oob' = OobAbort
       /\ reads' = reads \cup UpToFault(Accesses(0, y))
       /\ pc' = "aborted"
       /\ UNCHANGED <<rows, wstate>>

\* the closure passed to s.spawn for row y
Worker(y) ==
    /\ Alive
    /\ wstate[y] = "running"
    /\ IF InBounds(y)
       THEN WorkerReturn(y, 0) /\ oob' = oob
       ELSE WorkerOutside(y)
    /\ UNCHANGED <<bytes, width, height, channel_count, spawned, joined, grid, hash,
                   fpVars>>

Next ==
    \/ LengthMismatch
    \/ OverflowPanic
    \/ LengthOk
    \/ Spawn
    \/ Join
    \/ JoinPanic
    \/ ScopeExit
    \/ Build
    \/ \E y \in Rows : Worker(y)

Spec == Init /\ [][Next]_vars

----------------------------------------------------------------------------
(* What the claims speak of, stated apart from the code's loops *)

\* width * height * channel_count as an integer
TrueProduct == width * height * channel_count

\* the slice holds exactly the declared pixels, each of at least one channel
ValidImage == channel_count >= 1 /\ Len(bytes) = TrueProduct

\* channel k of pixel (px, py) of a valid image
Channel(px, py, k) == bytes[(py * width + px) * channel_count + k + 1]

\* the pixel's intensity: the luma of its first three channels (in
\* thousandths) when there are three or more, else its first channel
Intensity(px, py) ==
    IF channel_count >= 3
    THEN 299 * Channel(px, py, 0) + 587 * Channel(px, py, 1) + 114 * Channel(px, py, 2)
    ELSE Channel(px, py, 0)

\* the pixels of grid cell (row, col)
CellPixels(row, col) ==
    {p \in (0 .. (width - 1)) \X (0 .. (height - 1)) :
        /\ col * (width \div 9) <= p[1] /\ p[1] < (col + 1) * (width \div 9)
        /\ row * (height \div 8) <= p[2] /\ p[2] < (row + 1) * (height \div 8)}

RECURSIVE IntensitySum(_)
IntensitySum(pixels) ==
    IF pixels = {} THEN 0
    ELSE LET p == CHOOSE q \in pixels : TRUE
         IN  Intensity(p[1], p[2]) + IntensitySum(pixels \ {p})

ExpectedReads ==
    {(p[2] * width + p[1]) * channel_count + k :
        p \in UNION {CellPixels(row, col) : row \in Rows, col \in Cols},
        k \in (IF channel_count >= 3 THEN {0, 1, 2} ELSE {0})}

IncreasingLeftToRight ==
    /\ ValidImage
    /\ \A px \in 0 .. (width - 2), py \in 0 .. (height - 1) :
          Intensity(px, py) < Intensity(px + 1, py)
    /\ \A px \in 0 .. (width - 1), py \in 0 .. (height - 2) :
          Intensity(px, py) = Intensity(px, py + 1)

DecreasingLeftToRight ==
    /\ ValidImage
    /\ \A px \in 0 .. (width - 2), py \in 0 .. (height - 1) :
          Intensity(px, py) > Intensity(px + 1, py)
    /\ \A px \in 0 .. (width - 1), py \in 0 .. (height - 2) :
          Intensity(px, py) = Intensity(px, py + 1)

\* some thread can take a step: a worker is running, or the caller can spawn,
\* join the next handle, or leave the scope
CanStep ==
    \/ \E y \in Rows : wstate[y] = "running"
    \/ pc = "spawn"
    \/ pc = "join" /\ JoinReady(joined)
    \/ pc = "unwind"
    \/ pc \in {"check", "build"}

AllWorkersDone == \A y \in Rows : wstate[y] = "done"

----------------------------------------------------------------------------
(* Claims about Dhash::new *)

\* C1: once the length check has passed, every byte index a worker reads
\* lies in [0, bytes.len()), for every width, height and channel_count
\* (0 included).
C1_ReadsInBounds == \A i \in reads : 0 <= i /\ i < Len(bytes)

\* C2: whenever bytes.len() differs from the integer product
\* width * height * channel_count, Dhash::new panics in the length check: no
\* worker is ever spawned, no byte is ever read and nothing is returned.
C2_MismatchPanicsFirst ==
    Len(bytes) # TrueProduct =>
        /\ pc \in {"check", "panicked"}
        /\ spawned = 0
        /\ reads = {}

\* C3: in the value Dhash::new returns, bit row*8 + col (from the least
\* significant bit) is 1 exactly when grid[row][col] > grid[row][col+1]; equal
\* neighbours give 0, so a grid of constant rows gives hash 0.
C3_BitIsLeftGreater ==
    pc = "returned" =>
        /\ \A row \in 0 .. 7, col \in 0 .. 7 :
              (BitOf(hash, row * 8 + col) = 1) <=> (grid[row][col] > grid[row][col + 1])
        /\ (\A row \in 0 .. 7, col \in 0 .. 7 : grid[row][col] = grid[row][col + 1])
              => hash = U64Zero

C3_Witness ==
    /\ pc = "returned"
    /\ \E row \in 0 .. 7, col \in 0 .. 7 : grid[row][col] > grid[row][col + 1]
    /\ \E row \in 0 .. 7, col \in 0 .. 7 : grid[row][col] < grid[row][col + 1]
    /\ \E row \in 0 .. 7, col \in 0 .. 7 :
          grid[row][col] = grid[row][col + 1] /\ grid[row][col] > 0

\* C4 as stated: for an image at least 9 wide and 8 high, intensity strictly
\* increasing from left to right (constant top to bottom) gives the
\* fingerprint with every bit set, and strictly decreasing gives 0.
C4_Original ==
    (pc = "returned" /\ width >= 9 /\ height >= 8) =>
        /\ IncreasingLeftToRight => hash = U64Ones
        /\ DecreasingLeftToRight => hash = U64Zero

\* C4 amended: for an image at least 9 wide and 8 high, intensity strictly
\* decreasing from left to right (constant top to bottom) gives the
\* fingerprint with every bit set, and strictly increasing gives 0.
C4_GradientHashes ==
    (pc = "returned" /\ width >= 9 /\ height >= 8) =>
        /\ DecreasingLeftToRight => hash = U64Ones
        /\ IncreasingLeftToRight => hash = U64Zero

C4_Witness ==
    /\ pc = "returned" /\ width >= 9 /\ height >= 8
    /\ UsesRgb /\ width % 9 # 0
    /\ DecreasingLeftToRight
    /\ hash = U64Ones

\* C5: the signature is built only after all 8 workers have finished, from a
\* grid whose row y is the row worker y returned (every row already joined
\* is the row of a finished worker); once a worker has failed the
\* computation never builds or returns a fingerprint and cannot stop
\* anywhere but in the panic that reaches the caller.
C5_BarrierAndFailure ==
    /\ pc \in {"build", "returned"} =>
          AllWorkersDone /\ \A y \in Rows : grid[y] = rows[y]
    /\ \A y \in Rows : y < joined => wstate[y] = "done" /\ grid[y] = rows[y]
    /\ (\E y \in Rows : wstate[y] = "panicked") =>
          /\ pc \in {"spawn", "join", "unwind", "panicked"}
          /\ pc # "panicked" => CanStep

C5_Witness ==
    /\ pc = "build"
    /\ AllWorkersDone
    /\ \E y \in Rows : grid[y] # ZeroRow /\ grid[y] = rows[y]
    /\ \E y, z \in Rows : grid[y] # grid[z]

\* the failing side of C5 also happens: a worker failed and the caller got the panic
C5_FailureReached == pc = "panicked" /\ \E y \in Rows : wstate[y] = "panicked"

\* C6 as stated: no row is written into the grid before all 8 workers have
\* completed.
C6_Original == joined > 0 => \A y \in Rows : wstate[y] \in {"done", "panicked"}

\* C6 amended: row y is written into the grid only after worker y (and, the
\* joins being in order, workers 0..y) has completed, while later workers may
\* still be running; rows not yet joined are still the initial zeros, and
\* the grid is handed to the signature step only after all 8 have completed.
C6_RowAfterItsWorker ==
    /\ \A y \in Rows : y < joined => wstate[y] = "done" /\ grid[y] = rows[y]
    /\ \A y \in Rows : y >= joined => grid[y] = ZeroRow
    /\ pc \in {"build", "returned"} => joined = GridRows /\ AllWorkersDone

C6_Witness ==
    /\ joined >= 1
    /\ grid[0] # ZeroRow
    /\ \E y \in Rows : wstate[y] = "running"

\* C10: for a valid image, every cell (row, col) holds the sum of the
\* intensities of exactly the pixels of its cell_width x cell_height block,
\* each read once at (pixel_row*width + pixel_col)*channel_count (channels
\* 0, 1, 2 when there are 3 or more, channel 0 alone otherwise) and no other
\* byte is read; when width < 9 or height < 8 nothing fails, nothing is read,
\* every cell is 0 and the fingerprint is 0.
C10_CellSums ==
    /\ (pc = "returned" /\ ValidImage) =>
          /\ \A row \in Rows, col \in Cols :
                grid[row][col] = IntensitySum(CellPixels(row, col))
          /\ reads = ExpectedReads
    /\ ((width < 9 \/ height < 8) /\ Len(bytes) = TrueProduct) =>
          /\ pc \notin {"panicked", "unwind", "aborted"}
          /\ reads = {}
          /\ pc = "returned" => hash = U64Zero /\ \A y \in Rows : grid[y] = ZeroRow

C10_Witness ==
    /\ pc = "returned" /\ ValidImage
    /\ channel_count = 4 /\ width % 9 # 0 /\ height % 8 # 0
    /\ \A row \in Rows, col \in Cols : grid[row][col] > 0
    /\ \E row \in Rows, col \in Cols : grid[row][col] # grid[0][0]

C10_WitnessBlocks ==
    /\ pc = "returned" /\ ValidImage
    /\ width \div 9 >= 2 /\ height \div 8 >= 2
    /\ \A row \in Rows, col \in Cols : grid[row][col] > 0

C10_WitnessSmall ==
    /\ pc = "returned" /\ Len(bytes) = TrueProduct /\ Len(bytes) > 0
    /\ (width < 9 \/ height < 8)

----------------------------------------------------------------------------
(* The Dhash value: hamming_distance, ==, Display, FromStr *)

RECURSIVE XorBits(_, _)
XorBits(m, n) ==
    IF m = 0 /\ n = 0 THEN 0
    ELSE (((m % 2) + (n % 2)) % 2) + 2 * XorBits(m \div 2, n \div 2)

RECURSIVE OrBits(_, _)
OrBits(m, n) ==
    IF m = 0 /\ n = 0 THEN 0
    ELSE (IF (m % 2) + (n % 2) > 0 THEN 1 ELSE 0) + 2 * OrBits(m \div 2, n \div 2)

\* self.hash | other.hash, in place of the exclusive or
U64Or(a, b) == [k \in 1 .. NLimbs |-> OrBits(a[k], b[k])]

\* self.hash ^ other.hash
U64Xor(a, b) == [k \in 1 .. NLimbs |-> XorBits(a[k], b[k])]

RECURSIVE OnesIn(_)
OnesIn(n) == IF n = 0 THEN 0 ELSE (n % 2) + OnesIn(n \div 2)

RECURSIVE OnesInLimbs(_, _)
OnesInLimbs(a, k) == IF k > NLimbs THEN 0 ELSE OnesIn(a[k]) + OnesInLimbs(a, k + 1)

\* count_ones()
CountOnes(a) == OnesInLimbs(a, 1)

hamming_distance(self, other) == CountOnes(U64Xor(self, other))

\* equality of the two values bit for bit
eqExact(self, other) == self = other

\* PartialEq::eq
eq(self, other) == hamming_distance(self, other) < Threshold

LowerHexDigits == <<"0", "1", "2", "3", "4", "5", "6", "7",
                    "8", "9", "a", "b", "c", "d", "e", "f">>
UpperHexDigits == <<"0", "1", "2", "3", "4", "5", "6", "7",
                    "8", "9", "A", "B", "C", "D", "E", "F">>

\* hex digit n of h, n = 0 the least significant
NibbleAt(h, n) == (h[(n \div 4) + 1] \div (16 ^ (n % 4))) % 16

\* {:x}: the digits of the value, most significant first, "0" for zero
LowerHex(h) ==
    LET used == {n \in 0 .. 15 : NibbleAt(h, n) # 0}
        top == IF used = {} THEN 0 ELSE CHOOSE n \in used : \A m \in used : m <= n
    IN  [j \in 1 .. (top + 1) |-> LowerHexDigits[NibbleAt(h, top + 1 - j) + 1]]

\* no padding at all
NoPad(s, w, c) == s

\* the width and fill of {:016x}
PadLeft(s, w, c) == IF Len(s) >= w THEN s ELSE [j \in 1 .. (w - Len(s)) |-> c] \o s

\* write!(f, "{:016x}", &self.hash)
fmt(self) == PadLeft(LowerHex(self), HexWidth, "0")

\* char::to_digit(16), -1 for no digit
ToDigit(c) ==
    IF \E d \in 1 .. 16 : LowerHexDigits[d] = c
    THEN (CHOOSE d \in 1 .. 16 : LowerHexDigits[d] = c) - 1
    ELSE IF \E d \in 1 .. 16 : UpperHexDigits[d] = c
    THEN (CHOOSE d \in 1 .. 16 : UpperHexDigits[d] = c) - 1
    ELSE -1

\* result * 16 + d on the limbs; the last carry is the overflow
RECURSIVE MulAddLimbs(_, _, _)
MulAddLimbs(h, k, carry) ==
    IF k > NLimbs THEN <<carry>>
    ELSE LET v == h[k] * 16 + carry
         IN  <<v % Limb>> \o MulAddLimbs(h, k + 1, v \div Limb)

ParseOk(h) == [ok |-> TRUE, hash |-> h, err |-> "none"]
ParseErr(kind) == [ok |-> FALSE, hash |-> U64Zero, err |-> kind]

\* the digit loop of u64::from_str_radix
RECURSIVE ParseDigits(_, _, _)
ParseDigits(s, i, result) ==
    IF i > Len(s) THEN ParseOk(result)
    ELSE IF ToDigit(s[i]) < 0 THEN ParseErr("InvalidDigit")
    ELSE LET next == MulAddLimbs(result, 1, ToDigit(s[i]))
         IN  IF next[NLimbs + 1] # 0 THEN ParseErr("PosOverflow")
             ELSE ParseDigits(s, i + 1, SubSeq(next, 1, NLimbs))

\* u64::from_str_radix(s, 16), then Ok(Self { hash }) or Err(error)
from_str(s) ==
    IF s = << >> THEN ParseErr("Empty")
    ELSE IF Len(s) = 1 /\ s[1] \in {"+", "-"} THEN ParseErr("InvalidDigit")
    ELSE IF s[1] = "+" THEN ParseDigits(Tail(s), 1, U64Zero)
    ELSE ParseDigits(s, 1, U64Zero)

----------------------------------------------------------------------------
(* The values and texts the model draws *)

\* a u64 written as its four 16-bit groups, most significant first
U64(h3, h2, h1, h0) == <<h0, h1, h2, h3>>

FpVals ==
    { U64(0, 0, 0, 0),                    \* 0000000000000000
      U64(0, 0, 0, 31),                   \* 000000000000001f   5 bits
      U64(0, 0, 0, 1023),                 \* 00000000000003ff  10 bits
      U64(0, 0, 0, 2047),                 \* 00000000000007ff  11 bits
      U64(0, 0, 0, 32767),                \* 0000000000007fff  15 bits
      U64(65535, 65535, 65535, 64512),    \* fffffffffffffc00  the complement of 3ff
      U64(65535, 65535, 65535, 65535),    \* ffffffffffffffff
      U64(32768, 0, 0, 0),                \* 8000000000000000
      U64(0, 0, 57005, 48879),            \* 00000000deadbeef
      U64(291, 17767, 35243, 52719),      \* 0123456789abcdef
      U64(65244, 47768, 30292, 12816),    \* fedcba9876543210  its complement
      U64(61680, 59596, 52456, 61680) }   \* f0f0e8cccce8f0f0

Texts ==
    { << >>,
      <<"+">>,
      <<"-", "1">>,
      <<"1", "F">>,
      <<"+", "a", "0">>,
      <<"x", "y">>,
      <<"0", "0", "0", "0", "0", "0", "0", "0", "0", "0", "0", "0", "0", "0", "0", "0", "7">>,
      <<"1", "0", "0", "0", "0", "0", "0", "0", "0", "0", "0", "0", "0", "0", "0", "0", "0">> }

Names == {"a", "b", "c"}
Pairs == Names \X Names

Value(n) == IF n = "a" THEN fa ELSE IF n = "b" THEN fb ELSE fc

InitIdle ==
    /\ bytes = << >> /\ width = 0 /\ height = 0 /\ channel_count = 0
    /\ spawned = 0 /\ joined = 0
    /\ wstate = [y \in Rows |-> "unspawned"]
    /\ rows = [y \in Rows |-> ZeroRow]
    /\ reads = {}
    /\ oob = OobUnknown
    /\ grid = [y \in Rows |-> ZeroRow]
    /\ hash = U64Zero

FpInit ==
    /\ InitIdle
    /\ pc = "fp_start"
    /\ fa \in FpVals /\ fb \in FpVals /\ fc \in FpVals
    /\ dist = << >> /\ eqs = << >>
    /\ text = << >> /\ parsed = ParseErr("unset")

\* x.hamming_distance(&y) for every pair of the three values
CallHammingDistance ==
    /\ pc = "fp_start"
    /\ dist' = [p \in Pairs |-> hamming_distance(Value(p[1]), Value(p[2]))]
    /\ pc' = "fp_dist"
    /\ UNCHANGED <<newVars, fa, fb, fc, eqs, text, parsed>>

\* x == y for every pair of the three values
CallEq ==
    /\ pc = "fp_dist"
    /\ eqs' = [p \in Pairs |-> eq(Value(p[1]), Value(p[2]))]
    /\ pc' = "fp_eq"
    /\ UNCHANGED <<newVars, fa, fb, fc, dist, text, parsed>>

\* a.to_string()
CallToString ==
    /\ pc = "fp_start"
    /\ text' = fmt(fa)
    /\ pc' = "fp_rendered"
    /\ UNCHANGED <<newVars, fa, fb, fc, dist, eqs, parsed>>

\* Dhash::from_str of the text just rendered
CallFromStrRendered ==
    /\ pc = "fp_rendered"
    /\ parsed' = from_str(text)
    /\ pc' = "fp_roundtrip"
    /\ UNCHANGED <<newVars, fa, fb, fc, dist, eqs, text>>

\* Dhash::from_str of a text the caller supplies
CallFromStrGiven ==
    /\ pc = "fp_start"
    /\ \E s \in Texts :
         /\ text' = s
         /\ parsed' = from_str(s)
    /\ pc' = "fp_parsed"
    /\ UNCHANGED <<newVars, fa, fb, fc, dist, eqs>>

FpNext ==
    \/ CallHammingDistance
    \/ CallEq
    \/ CallToString
    \/ CallFromStrRendered
    \/ CallFromStrGiven

SpecFp == FpInit /\ [][FpNext]_vars

----------------------------------------------------------------------------
(* Claims about the Dhash value *)

\* the positions in which two values differ, counted bit by bit
DifferingBits(x, y) == {i \in 0 .. (HashBits - 1) : BitOf(x, i) # BitOf(y, i)}

\* the bitwise complement
Complement(x) == [k \in 1 .. NLimbs |-> (Limb - 1) - x[k]]

\* C7 as stated: there are fingerprints a, b, c at distances 5 (a, b),
\* 5 (b, c) and 15 (a, c), with a == b, b == c and not a == c (sought among
\* the values drawn).
C7_Original ==
    pc = "fp_start" =>
      \E x \in FpVals, y \in FpVals, z \in FpVals :
        /\ hamming_distance(x, y) = 5
        /\ hamming_distance(y, z) = 5
        /\ hamming_distance(x, z) = 15
        /\ eq(x, y) /\ eq(y, z) /\ ~eq(x, z)

\* C7 amended: there are fingerprints a, b, c at distances 10 (a, b),
\* 5 (b, c) and 15 (a, c), with a == b, b == c and not a == c; distances
\* 5, 5 and 15 cannot occur together, the distance from a to c never
\* exceeding the sum of the other two.
C7_NotTransitive ==
    pc = "fp_eq" =>
        /\ dist[<<"a", "c">>] <= dist[<<"a", "b">>] + dist[<<"b", "c">>]
        /\ (dist[<<"a", "b">>] = 10 /\ dist[<<"b", "c">>] = 5 /\ dist[<<"a", "c">>] = 15)
              => (eqs[<<"a", "b">>] /\ eqs[<<"b", "c">>] /\ ~eqs[<<"a", "c">>])

C7_Witness ==
    /\ pc = "fp_eq"
    /\ dist[<<"a", "b">>] = 10 /\ dist[<<"b", "c">>] = 5 /\ dist[<<"a", "c">>] = 15
    /\ eqs[<<"a", "b">>] /\ eqs[<<"b", "c">>] /\ ~eqs[<<"a", "c">>]

\* C8: hamming_distance(a, b) is the number of bit positions in which the
\* two values differ: within 0..64, the same in both directions, 0 for the
\* same value and 64 exactly for a value and its complement; a == b holds
\* exactly when the distance is below 11, so == is reflexive and symmetric.
C8_DistanceAndEq ==
    /\ pc \in {"fp_dist", "fp_eq"} =>
          \A p \in Pairs :
              /\ dist[p] = Cardinality(DifferingBits(Value(p[1]), Value(p[2])))
              /\ dist[p] \in 0 .. 64
              /\ dist[p] = dist[<<p[2], p[1]>>]
              /\ Value(p[1]) = Value(p[2]) => dist[p] = 0
              /\ dist[p] = 64 <=> Value(p[1]) = Complement(Value(p[2]))
    /\ pc = "fp_eq" =>
          \A p \in Pairs :
              /\ eqs[p] <=> dist[p] < 11
              /\ eqs[<<p[1], p[1]>>]
              /\ eqs[p] <=> eqs[<<p[2], p[1]>>]

C8_Witness ==
    /\ pc = "fp_eq"
    /\ dist[<<"a", "b">>] = 11 /\ ~eqs[<<"a", "b">>]
    /\ dist[<<"a", "c">>] = 10 /\ eqs[<<"a", "c">>]
    /\ \E x \in FpVals : hamming_distance(fa, x) = 64

\* C9: Display gives exactly 16 characters, each a lowercase hexadecimal
\* digit (zeros on the left), and from_str of that text succeeds with
\* exactly the value rendered.
C9_RoundTrip ==
    /\ pc \in {"fp_rendered", "fp_roundtrip"} =>
          /\ Len(text) = 16
          /\ \A j \in 1 .. Len(text) : \E d \in 1 .. 16 : LowerHexDigits[d] = text[j]
    /\ pc = "fp_roundtrip" => parsed.ok /\ parsed.hash = fa

C9_Witness ==
    /\ pc = "fp_roundtrip"
    /\ text[1] = "0" /\ text[16] = "f"
    /\ parsed.ok /\ parsed.hash = fa /\ fa # U64Zero

====
